---- MODULE Spec2Model ----
(***************************************************************************)
(* The unassign-inactive-issues automation: the three full-pipeline        *)
(* scripts                                                                 *)
(*   "rest"     src/scripts/index.js, the module export (REST client),     *)
(*   "raw"      src/unnamed/part_003, the module export (raw HTTP calls),  *)
(*   "unassign" src/scripts/unassign-inactive-issues.js, the module export *)
(* as one state machine.  One run lists the open issues page by page,      *)
(* walks the list, and for every assigned, inactive issue with no open     *)
(* linked pull request removes the assignees it classifies inactive,       *)
(* comments, and records the unassignments.  Every answer of the upstream  *)
(* API (success, failure, content) is an input chosen by the environment.  *)
(*                                                                         *)
(* The earlier scripts of the repository, which look at issue.assignee     *)
(* only (src/index.js, unnamed/part_000, unnamed/part_002, the run of      *)
(* scripts/index.js and the three scripts of unnamed/part_001), are        *)
(* further variants of the same machine.                                   *)
(*                                                                         *)
(*   Spec        one run of any script                                     *)
(*   SpecTwice   two runs of a full pipeline, one after the other          *)
(*   SpecFormat  formatUnassignments on any list of records                *)
(***************************************************************************)
EXTENDS Integers, Sequences, FiniteSets, TLC

(***************************************************************************)
(* Program constants.                                                      *)
(***************************************************************************)
perPage == 100
inactivityPeriodInMinutes == 1
Threshold == inactivityPeriodInMinutes * 60 * 1000

owner == "octo"
repo == "repo"

(***************************************************************************)
(* Bounds of the model.                                                    *)
(***************************************************************************)
\* the listing holds at most MaxPages pages that the API has content for
MaxPages == 2
\* the wall clock is read between Threshold - 1 and Threshold + MaxClockAhead
\* milliseconds after the issues' last update
MaxClockAhead == 1

Variants == {"rest", "raw", "unassign"}

\* the scripts that look at issue.assignee only:
\*   "src"          src/index.js
\*   "part_000"     src/unnamed/part_000
\*   "part_002"     src/unnamed/part_002
\*   "first"        src/scripts/index.js, run (lines 1-93)
\*   "timeline"     src/unnamed/part_001, run (lines 1-138)
\*   "contributors" src/unnamed/part_001, unassignInactiveContributors (139-222)
\*   "slack"        src/unnamed/part_001, run (lines 224-506)
EarlierVariants ==
    {"src", "part_000", "part_002", "first", "timeline", "contributors", "slack"}

(***************************************************************************)
(* Strings.                                                                *)
(***************************************************************************)
\* String.prototype.includes
Includes(str, sub) ==
    \E i \in 1..(Len(str) - Len(sub) + 1) : SubSeq(str, i, i + Len(sub) - 1) = sub

\* Array.prototype.join over strings
RECURSIVE Join(_, _)
Join(strs, sep) ==
    IF Len(strs) = 0 THEN ""
    ELSE IF Len(strs) = 1 THEN strs[1]
    ELSE strs[1] \o sep \o Join(Tail(strs), sep)

Digits == <<"0", "1", "2", "3", "4", "5", "6", "7", "8", "9">>
IsDigit(c) == \E d \in 1..10 : Digits[d] = c
DigitValue(c) == (CHOOSE d \in 1..10 : Digits[d] = c) - 1
CharAt(str, i) == SubSeq(str, i, i)

\* the end of the maximal run of digits that starts at position i (i - 1 if none)
RECURSIVE DigitsEnd(_, _)
DigitsEnd(str, i) ==
    IF i <= Len(str) /\ IsDigit(CharAt(str, i)) THEN DigitsEnd(str, i + 1) ELSE i - 1

\* parseInt(text, 10) of a string of digits
RECURSIVE ParseInt(_)
ParseInt(digits) ==
    IF Len(digits) = 0 THEN 0
    ELSE 10 * ParseInt(SubSeq(digits, 1, Len(digits) - 1))
         + DigitValue(CharAt(digits, Len(digits)))

\* the numbers captured by every match of  prefix(\d+)  in str
CapturedAfter(str, prefix) ==
    { ParseInt(SubSeq(str, i + Len(prefix), DigitsEnd(str, i + Len(prefix)))) :
        i \in { j \in 1..(Len(str) - Len(prefix)) :
                  /\ SubSeq(str, j, j + Len(prefix) - 1) = prefix
                  /\ DigitsEnd(str, j + Len(prefix)) >= j + Len(prefix) } }

(***************************************************************************)
(* The upstream repository as the listing serves it.                       *)
(***************************************************************************)
Users ==
    { [login |-> "alice", site_admin |-> FALSE],
      [login |-> "bob", site_admin |-> FALSE],
      [login |-> "octo", site_admin |-> FALSE],
      [login |-> "root", site_admin |-> TRUE] }

User(l) == CHOOSE u \in Users : u.login = l

\* the pull request that issue bodies, the search and the timeline refer to
LinkedPR == 900

AssigneeLists ==
    { <<>>,
      <<User("alice")>>,
      <<User("root")>>,
      <<User("octo")>>,
      <<User("alice"), User("bob")>>,
      <<User("bob"), User("root")>>,
      <<User("root"), User("alice")>>,
      <<User("octo"), User("alice")>> }

Bodies ==
    { "",
      "fixes #" \o ToString(LinkedPR),
      "see https://github.com/" \o owner \o "/" \o repo \o "/pull/" \o ToString(LinkedPR) }

Shapes == [assignees : AssigneeLists, body : Bodies]
Plain == [assignees |-> <<User("alice")>>, body |-> ""]

Item(k, isPR, shape) ==
    [number |-> k, pull_request |-> isPR, assignees |-> shape.assignees,
     updated_at |-> 0, body |-> shape.body]

Unassigned == [assignees |-> <<>>, body |-> ""]

\* lead items (a pull request first when withPR, then unassigned issues),
\* followed by the issues of the given shapes; the number of an item is its
\* place in the listing
World(lead, withPR, shapes) ==
    [k \in 1..(lead + Len(shapes)) |->
        IF k <= lead
        THEN Item(k, withPR /\ k = 1, Unassigned)
        ELSE Item(k, FALSE, shapes[k - lead])]

\* short listings: at most two issues; a pull request followed by at most
\* two issues assigned to alice
SmallWorlds ==
    { World(0, FALSE, shapes) :
        shapes \in {<<>>} \cup { <<s>> : s \in Shapes }
                          \cup { <<s, Plain>> : s \in { x \in Shapes : x.body = "" } } }
    \cup { World(1, TRUE, shapes) : shapes \in {<<>>, <<Plain>>, <<Plain, Plain>>} }

\* listings that fill whole pages: the assigned issues are the last two items
LargeWorlds ==
    { World(p * perPage - d, withPR, <<Plain, Plain>>) :
        p \in 1..(MaxPages - 1), d \in 1..2, withPR \in BOOLEAN }

\* listings with a pull request that is assigned to alice
AssignedPRWorlds ==
    { <<Item(1, TRUE, Plain)>>,
      <<Item(1, TRUE, Plain), Item(2, FALSE, Plain)>> }

Worlds == SmallWorlds \cup LargeWorlds \cup AssignedPRWorlds

VARIABLES
    variant,        \* which script runs
    items,          \* the open issues and pull requests of the repository, in listing order
    assigned,       \* upstream: the logins assigned to each assigned issue
    pc,             \* where the run is
    page,           \* getAllIssues: the page to request
    allIssues,      \* getAllIssues: the issues collected
    idx,            \* the place in allIssues of the issue being processed
    now,            \* the last reading of the wall clock
    elapsed,        \* issue number -> now - lastActivity as the run computed it
    linked,         \* issue number -> what checkLinkedPRs returned (open PRs found)
    lookups,        \* the membership answers received for the current issue
    activeAssignees,
    inactiveAssignees,
    calls,          \* every request sent upstream, in order
    unassignments,  \* the records of the run
    output,         \* the values passed to core.setOutput('unassignments', ...)
    failed,         \* the messages passed to core.setFailed (unnamed/part_000:
                    \* printed before process.exit(1))
    returned,       \* the value the run returned
    openPRs,        \* upstream: the pull requests that are open
    env,            \* the environment of the process: which settings are present
    answered,       \* issue number -> the membership answers received for it (kept
                    \* only when the run is one of two)
    runsLeft,       \* the runs of the script still to come after this one
    earlier         \* what the run before this one did

vars ==
    <<variant, items, assigned, pc, page, allIssues, idx, now, elapsed, linked,
      lookups, activeAssignees, inactiveAssignees, calls, unassignments, output,
      failed, returned, openPRs, env, answered, runsLeft, earlier>>

Logins(users) == [i \in 1..Len(users) |-> users[i].login]

\* the settings a run reads: the credential, GITHUB_REPOSITORY, the Slack
\* webhook URL, the inactivity period
EnvComplete == [token |-> TRUE, repository |-> TRUE, webhook |-> TRUE, period |-> "1"]

Without(field) == [EnvComplete EXCEPT ![field] = FALSE]

\* the settings a script reads, of which at most one is missing
Envs(v) ==
    {EnvComplete}
    \cup (IF v \in {"rest", "raw", "unassign"} \cup (EarlierVariants \ {"contributors"})
          THEN {Without("repository")} ELSE {})
    \cup (IF v \in {"raw"} \cup EarlierVariants THEN {Without("token")} ELSE {})
    \cup (IF v = "slack" THEN {Without("webhook")} ELSE {})
    \cup (IF v \in {"src", "part_000", "part_002"}
          THEN {[EnvComplete EXCEPT !.period = ""]} ELSE {})

\* no run came before
NoEarlier == [ran |-> FALSE, updated |-> {}, linked |-> << >>, answers |-> << >>]

\* the state of a run when the script starts
FreshRun ==
    /\ page = 1
    /\ allIssues = <<>>
    /\ idx = 0
    /\ elapsed = << >>
    /\ linked = << >>
    /\ lookups = << >>
    /\ answered = << >>
    /\ activeAssignees = <<>>
    /\ inactiveAssignees = <<>>
    /\ calls = <<>>
    /\ unassignments = <<>>
    /\ output = <<>>
    /\ failed = <<>>
    /\ returned = <<>>

AssignedOf(list) ==
    [n \in { k \in 1..Len(list) : list[k].assignees # <<>> } |-> Logins(list[n].assignees)]

Init ==
    /\ variant \in Variants \cup EarlierVariants
    /\ items \in Worlds
    /\ assigned = AssignedOf(items)
    /\ openPRs \in SUBSET {LinkedPR}
    /\ env \in Envs(variant)
    /\ pc = IF variant \in Variants THEN "access" ELSE "start"
    /\ now = Threshold - 1
    /\ FreshRun
    /\ runsLeft = 0
    /\ earlier = NoEarlier

Call(op, issue, arg, status) == [op |-> op, issue |-> issue, arg |-> arg, status |-> status]

\* the top-level catch: core.setFailed(error.message); return ''
Fail(message) ==
    /\ failed' = Append(failed, message)
    /\ returned' = <<"">>
    /\ pc' = "done"

(***************************************************************************)
(* The access probe: repos.get before anything else.                       *)
(***************************************************************************)
\* what the API can answer: a request without a credential is rejected
Granted == IF env.token THEN BOOLEAN ELSE {FALSE}

AccessCheck ==
    /\ pc = "access"
    /\ IF ~env.repository
       THEN \* context.payload.repository.full_name: TypeError
            /\ Fail("Cannot read properties of undefined")
            /\ UNCHANGED calls
       ELSE \E ok \in Granted :
              /\ calls' = Append(calls, Call("repos.get", 0, "probe", IF ok THEN 200 ELSE 401))
              /\ IF ok
                 THEN /\ pc' = "list"
                      /\ UNCHANGED <<failed, returned>>
                 ELSE Fail("Repository access failed")
    /\ UNCHANGED <<variant, items, assigned, page, allIssues, idx, now, elapsed, linked,
                   lookups, activeAssignees, inactiveAssignees, unassignments, output>>
    /\ UNCHANGED <<openPRs, env, answered, runsLeft, earlier>>

(***************************************************************************)
(* getAllIssues: one turn of the pagination loop.                          *)
(***************************************************************************)
Min(a, b) == IF a < b THEN a ELSE b

\* what the API serves for a page: items (page-1)*perPage+1 .. page*perPage
PageOf(list, p) == SubSeq(list, (p - 1) * perPage + 1, Min(p * perPage, Len(list)))

NotPullRequest(issue) == ~issue.pull_request

\* response.data.filter(issue => !issue.pull_request)
FilterIssues(data) == SelectSeq(data, NotPullRequest)

\* the listing stops after this page
LastPage(issues) == Len(issues) < perPage

\* a failed page request ends the listing with what was collected ("rest", "raw":
\* catch, break) or is thrown to the top-level handler ("unassign": no catch)
ListingErrorIsSwallowed(v) == v \in {"rest", "raw"}

getAllIssues ==
    /\ pc = "list"
    /\ \E ok \in BOOLEAN :
        /\ calls' = Append(calls, Call("issues.listForRepo", 0, page, IF ok THEN 200 ELSE 500))
        /\ IF ok
           THEN LET issues == FilterIssues(PageOf(items, page)) IN
                IF Len(issues) = 0
                THEN /\ pc' = "loop"
                     /\ UNCHANGED <<allIssues, page, failed, returned>>
                ELSE /\ allIssues' = allIssues \o issues
                     /\ IF LastPage(issues)
                        THEN pc' = "loop" /\ page' = page
                        ELSE pc' = "list" /\ page' = page + 1
                     /\ UNCHANGED <<failed, returned>>
           ELSE IF ListingErrorIsSwallowed(variant)
                THEN /\ pc' = "loop"
                     /\ UNCHANGED <<allIssues, page, failed, returned>>
                ELSE /\ Fail("listForRepo failed")
                     /\ UNCHANGED <<allIssues, page>>
    /\ UNCHANGED <<variant, items, assigned, idx, now, elapsed, linked, lookups,
                   activeAssignees, inactiveAssignees, unassignments, output>>
    /\ UNCHANGED <<openPRs, env, answered, runsLeft, earlier>>

(***************************************************************************)
(* The head of the loop over the issues: the next issue, its assignees,    *)
(* its inactivity.                                                         *)
(***************************************************************************)
ClockReadings == (Threshold - 1)..(Threshold + MaxClockAhead)

\* the check of the assignees left out
HasNoAssigneesNever(issue) == FALSE

\* assignees.length === 0
HasNoAssignees(issue) == Len(issue.assignees) = 0

\* >= where the code has >
IsInactiveAtThreshold(ms) == ms >= inactivityPeriodInMinutes * 60 * 1000

\* "rest", "raw": now - lastActivity <= period * 60 * 1000 is skipped;
\* "unassign": now - lastActivity > period * 60 * 1000 is processed
IsInactive(ms) == ms > inactivityPeriodInMinutes * 60 * 1000

NextIssue ==
    /\ pc = "loop"
    /\ idx < Len(allIssues)
    /\ idx' = idx + 1
    /\ LET issue == allIssues[idx + 1] IN
       IF HasNoAssignees(issue)
       THEN /\ pc' = "loop"
            /\ UNCHANGED <<now, elapsed>>
       ELSE \E t \in ClockReadings :
              /\ t >= now
              /\ now' = t
              /\ elapsed' = (issue.number :> (t - issue.updated_at)) @@ elapsed
              /\ pc' = IF IsInactive(t - issue.updated_at) THEN "guard" ELSE "loop"
    /\ lookups' = << >>
    /\ activeAssignees' = <<>>
    /\ inactiveAssignees' = <<>>
    /\ UNCHANGED <<variant, items, assigned, page, allIssues, linked, calls,
                   unassignments, output, failed, returned>>
    /\ UNCHANGED <<openPRs, env, answered, runsLeft, earlier>>

(***************************************************************************)
(* checkLinkedPRs.                                                         *)
(***************************************************************************)
Keywords ==
    <<"close", "closes", "closed", "fix", "fixes", "fixed",
      "resolve", "resolves", "resolved">>

RECURSIVE SkipSpaces(_, _)
SkipSpaces(str, i) ==
    IF i <= Len(str) /\ CharAt(str, i) = " " THEN SkipSpaces(str, i + 1) ELSE i

\* where  \s*:?\s*  ends when it starts at position i
AfterColon(str, i) ==
    LET j == SkipSpaces(str, i) IN
    IF j <= Len(str) /\ CharAt(str, j) = ":" THEN SkipSpaces(str, j + 1) ELSE j

\* /(?:close|...|resolved)\s*:?\s*#(\d+)/gi
KeywordEnds(body, word) ==
    { AfterColon(body, j + Len(word)) :
        j \in { x \in 1..(Len(body) - Len(word) + 1) :
                  SubSeq(body, x, x + Len(word) - 1) = word } }

ClosingRefs(body) ==
    { ParseInt(SubSeq(body, h + 1, DigitsEnd(body, h + 1))) :
        h \in (UNION { KeywordEnds(body, Keywords[k]) : k \in 1..Len(Keywords) })
             \cap { x \in 1..(Len(body) - 1) :
                      CharAt(body, x) = "#" /\ DigitsEnd(body, x + 1) > x } }

\* the three patterns over the issue body; nothing when the body is empty
BodyRefs(body) ==
    IF body = "" THEN {}
    ELSE CapturedAfter(body, "#")
         \cup CapturedAfter(body, "https://github.com/" \o owner \o "/" \o repo \o "/pull/")
         \cup CapturedAfter(body, "http://github.com/" \o owner \o "/" \o repo \o "/pull/")
         \cup ClosingRefs(body)

RECURSIVE SetToSeq(_)
SetToSeq(S) ==
    IF S = {} THEN <<>>
    ELSE LET m == CHOOSE x \in S : \A y \in S : x <= y IN <<m>> \o SetToSeq(S \ {m})

\* pr.state as upstream has it
PRState(pr) == IF pr \in openPRs THEN "open" ELSE "closed"

\* what a lookup of one pull request gives: its state, a failure answer
\* ("error": the REST client throws, the raw call answers not ok), or, for a
\* raw call, a thrown network error
FetchOutcomes(v, pr) ==
    {PRState(pr), "error"} \cup IF v = "raw" THEN {"throw"} ELSE {}

\* the answers to the lookups of the targets, one after the other
FetchAnswers(v, targets) ==
    { o \in [1..Len(targets) -> {"open", "closed", "error", "throw"}] :
        \A i \in 1..Len(targets) : o[i] \in FetchOutcomes(v, targets[i]) }

\* the list the search (or the timeline) names, or its failure
ListOutcomes(v) ==
    { [ok |-> TRUE, thrown |-> FALSE, prs |-> l] : l \in {<<>>, <<LinkedPR>>} }
    \cup { [ok |-> FALSE, thrown |-> FALSE, prs |-> <<>>] }
    \cup IF v = "raw" THEN { [ok |-> FALSE, thrown |-> TRUE, prs |-> <<>>] } ELSE {}

\* fetch the targets in order until one throws: the fetches made, the
\* [number, state] answers received, whether one threw
RECURSIVE FetchAll(_, _)
FetchAll(targets, outs) ==
    IF targets = <<>> THEN [made |-> <<>>, got |-> <<>>, thrown |-> FALSE]
    ELSE IF Head(outs) = "throw"
         THEN [made |-> <<Head(targets)>>, got |-> <<>>, thrown |-> TRUE]
         ELSE LET rest == FetchAll(Tail(targets), Tail(outs))
                  here == IF Head(outs) = "error" THEN <<>>
                          ELSE <<[number |-> Head(targets), state |-> Head(outs)]>>
              IN [made |-> <<Head(targets)>> \o rest.made,
                  got |-> here \o rest.got,
                  thrown |-> rest.thrown]

OpenOnly(got) == SelectSeq(got, LAMBDA pr : pr.state = "open")

\* new Map keyed by pr.number: a later entry replaces an earlier one
LastState(got, n) ==
    got[CHOOSE i \in 1..Len(got) :
          got[i].number = n /\ \A j \in (i + 1)..Len(got) : got[j].number # n].state

Numbers(got) == { got[i].number : i \in 1..Len(got) }

GetCalls(n, made) == [i \in 1..Len(made) |-> Call("pulls.get", n, made[i], 0)]

\* scripts/index.js without method 3 once the search has found an open pull
\* request
checkLinkedPRsRestShortCircuit(issue, search, outs) ==
    LET t1 == IF issue.pull_request THEN <<issue.number>> ELSE <<>>
        t2 == search.prs
        f1 == FetchAll(t1, SubSeq(outs, 1, Len(t1)))
        f2 == FetchAll(t2, SubSeq(outs, Len(t1) + 1, Len(t1) + Len(t2)))
        t3 == IF OpenOnly(f1.got \o f2.got) # <<>> THEN <<>>
              ELSE SetToSeq(BodyRefs(issue.body))
        f3 == FetchAll(t3, SubSeq(outs, Len(t1) + Len(t2) + 1, Len(t1) + Len(t2) + Len(t3)))
        linkedPRs == f1.got \o f2.got \o OpenOnly(f3.got)
    IN [open |-> { n \in Numbers(linkedPRs) : LastState(linkedPRs, n) = "open" },
        calls |-> GetCalls(issue.number, f1.made)
                  \o <<Call("search.issuesAndPullRequests", issue.number, "", 0)>>
                  \o GetCalls(issue.number, f2.made)
                  \o GetCalls(issue.number, f3.made)]

\* scripts/index.js: the open pull requests found and the requests sent
checkLinkedPRsRest(issue, search, outs) ==
    LET t1 == IF issue.pull_request THEN <<issue.number>> ELSE <<>>
        t2 == search.prs
        t3 == SetToSeq(BodyRefs(issue.body))
        f1 == FetchAll(t1, SubSeq(outs, 1, Len(t1)))
        f2 == FetchAll(t2, SubSeq(outs, Len(t1) + 1, Len(t1) + Len(t2)))
        f3 == FetchAll(t3, SubSeq(outs, Len(t1) + Len(t2) + 1, Len(t1) + Len(t2) + Len(t3)))
        linkedPRs == f1.got \o f2.got \o OpenOnly(f3.got)
    IN [open |-> { n \in Numbers(linkedPRs) : LastState(linkedPRs, n) = "open" },
        calls |-> GetCalls(issue.number, f1.made)
                  \o <<Call("search.issuesAndPullRequests", issue.number, "", 0)>>
                  \o GetCalls(issue.number, f2.made)
                  \o GetCalls(issue.number, f3.made)]

\* unnamed/part_003: the set of open pull requests found and the requests sent
checkLinkedPRsRaw(issue, timeline, search, outs) ==
    LET t1 == timeline.prs
        t2 == search.prs
        t3 == SetToSeq(BodyRefs(issue.body))
        f1 == FetchAll(t1, SubSeq(outs, 1, Len(t1)))
        f2 == FetchAll(t2, SubSeq(outs, Len(t1) + 1, Len(t1) + Len(t2)))
        f3 == FetchAll(t3, SubSeq(outs, Len(t1) + Len(t2) + 1, Len(t1) + Len(t2) + Len(t3)))
        found == Numbers(OpenOnly(f1.got)) \cup Numbers(OpenOnly(f2.got))
                 \cup Numbers(OpenOnly(f3.got))
    IN [open |-> IF f3.thrown THEN {} ELSE found,
        calls |-> <<Call("issues.timeline", issue.number, "", 0)>>
                  \o GetCalls(issue.number, f1.made)
                  \o <<Call("search.issues", issue.number, "", 0)>>
                  \o GetCalls(issue.number, f2.made)
                  \o GetCalls(issue.number, f3.made)]

\* scripts/unassign-inactive-issues.js calls checkLinkedPRs() without
\* arguments: issue is undefined, the function returns false at once
checkLinkedPRsUnassign == [open |-> {}, calls |-> <<>>]

\* the result of checkLinkedPRs ignored
SkipsForLinkedPRsNever(open) == FALSE

\* hasOpenPRs / linkedPRs.size > 0: the issue is skipped
SkipsForLinkedPRs(open) == open # {}

\* the pull requests one call looks up, in order
TargetsRest(issue, search) ==
    (IF issue.pull_request THEN <<issue.number>> ELSE <<>>)
    \o search.prs \o SetToSeq(BodyRefs(issue.body))

TargetsRaw(issue, timeline, search) ==
    timeline.prs \o search.prs \o SetToSeq(BodyRefs(issue.body))

checkLinkedPRs ==
    /\ pc = "guard"
    /\ LET issue == allIssues[idx] IN
       \E r \in CASE variant = "rest" ->
                     { checkLinkedPRsRest(issue, search, outs) :
                         <<search, outs>> \in
                           UNION { { <<s, o>> :
                                       o \in FetchAnswers(variant, TargetsRest(issue, s)) } :
                                   s \in ListOutcomes(variant) } }
                  [] variant = "raw" ->
                     { checkLinkedPRsRaw(issue, tso[1], tso[2], tso[3]) :
                         tso \in
                           UNION { { <<t, s, o>> :
                                       o \in FetchAnswers(variant, TargetsRaw(issue, t, s)) } :
                                   t \in ListOutcomes(variant), s \in ListOutcomes(variant) } }
                  [] OTHER -> { checkLinkedPRsUnassign } :
          /\ calls' = calls \o r.calls
          /\ linked' = (issue.number :> r.open) @@ linked
          /\ pc' = IF SkipsForLinkedPRs(r.open) THEN "loop" ELSE "classify"
    /\ UNCHANGED <<variant, items, assigned, page, allIssues, idx, now, elapsed, lookups,
                   activeAssignees, inactiveAssignees, unassignments, output, failed,
                   returned>>
    /\ UNCHANGED <<openPRs, env, answered, runsLeft, earlier>>

(***************************************************************************)
(* The classification of the assignees.                                    *)
(***************************************************************************)
\* the login repos.get reports as the owner of the repository
RepoOwnerLogin == owner

\* what the API answers to the two lookups of checkUserMembership: repo is
\* whether repos.get succeeds, member whether the membership lookup succeeds
MembershipAnswers == [repo : BOOLEAN, member : BOOLEAN]

\* a failed repository lookup taken for a positive answer
checkUserMembershipFailOpen(username, answer) ==
    IF ~answer.repo THEN TRUE
    ELSE IF RepoOwnerLogin = username THEN TRUE
    ELSE answer.member

checkUserMembership(username, answer) ==
    IF ~answer.repo THEN FALSE
    ELSE IF RepoOwnerLogin = username THEN TRUE
    ELSE answer.member

\* the membership lookup is sent only after repos.get succeeded and the
\* user is not the owner
AsksMembership(username, answer) == answer.repo /\ RepoOwnerLogin # username

\* assignee.site_admin || await checkUserMembership(...)
IsActiveAssignee(assignee, answer) ==
    assignee.site_admin \/ checkUserMembership(assignee.login, answer)

\* what the run learnt about one assignee: "none" where no request was sent
Lookup(assignee, answer) ==
    [login |-> assignee.login,
     site_admin |-> assignee.site_admin,
     repo |-> IF assignee.site_admin THEN "none"
              ELSE IF answer.repo THEN "ok" ELSE "failed",
     member |-> IF assignee.site_admin \/ ~AsksMembership(assignee.login, answer)
                THEN "none"
                ELSE IF answer.member THEN "ok" ELSE "failed"]

LookupCalls(n, l) ==
    (IF l.repo = "none" THEN <<>> ELSE <<Call("repos.get", n, l.login, 0)>>)
    \o (IF l.member = "none" THEN <<>> ELSE <<Call("orgs.membership", n, l.login, 0)>>)

RECURSIVE Flatten(_)
Flatten(seqs) == IF seqs = <<>> THEN <<>> ELSE Head(seqs) \o Flatten(Tail(seqs))

\* the logins of the assignees that are (keep = TRUE) or are not active, in order
RECURSIVE Partition(_, _, _)
Partition(assignees, answers, keep) ==
    IF assignees = <<>> THEN <<>>
    ELSE (IF IsActiveAssignee(Head(assignees), Head(answers)) = keep
          THEN <<Head(assignees).login>> ELSE <<>>)
         \o Partition(Tail(assignees), Tail(answers), keep)

ClassifyAssignees ==
    /\ pc = "classify"
    /\ LET issue == allIssues[idx]
           n == Len(issue.assignees)
       IN \E answers \in [1..n -> MembershipAnswers] :
            LET ls == [i \in 1..n |-> Lookup(issue.assignees[i], answers[i])]
                inactive == Partition(issue.assignees, answers, FALSE)
            IN /\ lookups' = ls
               /\ answered' = IF runsLeft > 0 \/ earlier.ran
                               THEN (issue.number :> ls) @@ answered ELSE answered
               /\ activeAssignees' = Partition(issue.assignees, answers, TRUE)
               /\ inactiveAssignees' = inactive
               /\ calls' = calls \o Flatten([i \in 1..n |-> LookupCalls(issue.number, ls[i])])
               /\ pc' = IF Len(inactive) = 0 THEN "loop" ELSE "update"
    /\ UNCHANGED <<variant, items, assigned, page, allIssues, idx, now, elapsed, linked,
                   unassignments, output, failed, returned>>
    /\ UNCHANGED <<openPRs, env, runsLeft, earlier>>

(***************************************************************************)
(* The update of the issue, the comment, the records.                      *)
(***************************************************************************)
Ok(status) == status \in 200..299

\* the statuses a write is answered with
UpdateStatuses == {200, 403, 500}
CommentStatuses == {201, 403, 500}

\* response.statusText: the reason phrase of the status line (empty over
\* HTTP/2); it never carries the status code
StatusText(status) ==
    CASE status = 403 -> "Forbidden"
      [] status = 500 -> "Internal Server Error"
      [] OTHER -> "OK"

\* the message of the error a failed write raises in unnamed/part_003
RawErrorMessage(what, status) == what \o StatusText(status)

\* the catch that never rethrows
IsPermissionErrorNever(v, what, status) == FALSE

\* the catch around update and comment rethrows, which ends the run:
\* issueError.status === 403 ("rest", "unassign"),
\* issueError.message.includes('403') ("raw")
IsPermissionError(v, what, status) ==
    IF v = "raw" THEN Includes(RawErrorMessage(what, status), "403")
    ELSE status = 403

\* the update keeps the inactive assignees and drops the active ones
UpdateAssigneesInactive(active, inactive) == inactive

\* assignees: [] as in the single-assignee scripts
UpdateAssigneesNone(active, inactive) == <<>>

\* assignees: activeAssignees
UpdateAssignees(active, inactive) == active

\* the update takes the inactive assignees off the list upstream has
AssigneesAfterRemoval(current, active, inactive) ==
    SelectSeq(current, LAMBDA l : \A i \in 1..Len(inactive) : inactive[i] # l)

\* upstream after issues.update: the assignees are the list that was sent,
\* whatever the list was
AssigneesAfterUpdate(current, active, inactive) == UpdateAssignees(active, inactive)

\* the comment is sent whatever the update was answered
AfterUpdateAlwaysComment(ok) == "comment"

\* the comment follows the update inside the try: an update that failed
\* throws to the catch, past the comment and the records
AfterUpdate(ok) == IF ok THEN "comment" ELSE "loop"

UpdateIssue ==
    /\ pc = "update"
    /\ LET issue == allIssues[idx] IN
       \E status \in UpdateStatuses :
         /\ calls' = Append(calls, Call("issues.update", issue.number,
                                        UpdateAssignees(activeAssignees, inactiveAssignees),
                                        status))
         /\ IF Ok(status)
            THEN /\ assigned' = [assigned EXCEPT ![issue.number] =
                                    AssigneesAfterUpdate(@, activeAssignees,
                                                         inactiveAssignees)]
                 /\ pc' = AfterUpdate(TRUE)
                 /\ UNCHANGED <<failed, returned>>
            ELSE /\ UNCHANGED assigned
                 /\ IF IsPermissionError(variant, "Failed to update issue: ", status)
                    THEN Fail("Token lacks necessary permissions")
                    ELSE pc' = AfterUpdate(FALSE) /\ UNCHANGED <<failed, returned>>
    /\ UNCHANGED <<variant, items, page, allIssues, idx, now, elapsed, linked, lookups,
                   activeAssignees, inactiveAssignees, unassignments, output>>
    /\ UNCHANGED <<openPRs, env, answered, runsLeft, earlier>>

\* only the first inactive assignee is named
mentionListFirstOnly(inactive) == "@" \o inactive[1]

\* inactiveAssignees.map(login => `@${login}`).join(', ')
mentionList(inactive) == Join([i \in 1..Len(inactive) |-> "@" \o inactive[i]], ", ")

issueUrl(n) ==
    "https://github.com/" \o owner \o "/" \o repo \o "/issues/" \o ToString(n)

\* the records name the issue after the one that was updated
RecordsOfNextIssue(inactive, n) ==
    [i \in 1..Len(inactive) |->
        [user |-> inactive[i], repo |-> repo, owner |-> owner,
         issueNumber |-> n + 1, issueUrl |-> issueUrl(n + 1)]]

\* inactiveAssignees.forEach(login => unassignments.push({...}))
Records(inactive, n) ==
    [i \in 1..Len(inactive) |->
        [user |-> inactive[i], repo |-> repo, owner |-> owner,
         issueNumber |-> n, issueUrl |-> issueUrl(n)]]

\* the collection is replaced by the records of the issue
PushReplacing(records, new) == new

\* unassignments.push(...): the records go to the end of the collection
Push(records, new) == records \o new

CreateComment ==
    /\ pc = "comment"
    /\ LET issue == allIssues[idx] IN
       \E status \in CommentStatuses :
         /\ calls' = Append(calls, Call("issues.createComment", issue.number,
                                        mentionList(inactiveAssignees), status))
         /\ IF Ok(status)
            THEN /\ unassignments' = Push(unassignments,
                                           Records(inactiveAssignees, issue.number))
                 /\ pc' = "loop"
                 /\ UNCHANGED <<failed, returned>>
            ELSE /\ UNCHANGED unassignments
                 /\ IF IsPermissionError(variant, "Failed to create comment: ", status)
                    THEN Fail("Token lacks necessary permissions")
                    ELSE pc' = "loop" /\ UNCHANGED <<failed, returned>>
    /\ UNCHANGED <<variant, items, assigned, page, allIssues, idx, now, elapsed, linked,
                   lookups, activeAssignees, inactiveAssignees, output>>
    /\ UNCHANGED <<openPRs, env, answered, runsLeft, earlier>>

(***************************************************************************)
(* The summary.                                                            *)
(***************************************************************************)
\* `${curr.repo}#${curr.issueNumber}`
GroupKey(r) == r.repo \o "#" \o ToString(r.issueNumber)

\* every record opens a group of its own
RECURSIVE groupedByIssueUngrouped(_, _)
groupedByIssueUngrouped(records, acc) ==
    IF records = <<>> THEN acc
    ELSE LET curr == Head(records) IN
         groupedByIssueUngrouped(Tail(records),
           Append(acc, [key |-> "", repo |-> curr.repo,
                        owner |-> curr.owner, issueNumber |-> curr.issueNumber,
                        issueUrl |-> curr.issueUrl, users |-> <<curr.user>>]))

\* unassignments.reduce(...): the groups in order of their first record
RECURSIVE groupedByIssue(_, _)
groupedByIssue(records, acc) ==
    IF records = <<>> THEN acc
    ELSE LET curr == Head(records)
             at == { i \in 1..Len(acc) : acc[i].key = GroupKey(curr) }
         IN IF at = {}
            THEN groupedByIssue(Tail(records),
                   Append(acc, [key |-> GroupKey(curr), repo |-> curr.repo,
                                owner |-> curr.owner, issueNumber |-> curr.issueNumber,
                                issueUrl |-> curr.issueUrl, users |-> <<curr.user>>]))
            ELSE LET i == CHOOSE i \in at : TRUE IN
                 groupedByIssue(Tail(records),
                   [acc EXCEPT ![i].users = Append(@, curr.user)])

\* one entry of the summary
FormatGroup(v, g) ==
    (IF v = "unassign" THEN "* " ELSE "")
    \o Join([i \in 1..Len(g.users) |-> "@" \o g.users[i]], ", ")
    \o " from <" \o g.issueUrl \o "|" \o g.repo \o "#" \o ToString(g.issueNumber) \o ">"

formatUnassignments(v, records) ==
    IF Len(records) = 0 THEN ""
    ELSE LET groups == groupedByIssue(records, <<>>) IN
         Join([i \in 1..Len(groups) |-> FormatGroup(v, groups[i])],
              IF v = "unassign" THEN "\n\n" ELSE ", ")

\* what the function evaluates to when it ends without a return statement
Undefined == "undefined"

\* the summary is made before the last issue of the list was taken up
LoopEndedEarly(i, list) == i >= Len(list) - 1

\* the statements after the for...of loop are reached when the list is
\* exhausted
LoopEnded(i, list) == i = Len(list)

\* the catch around core.setOutput calls core.setFailed and returns nothing
SetOutputFailed == Undefined

\* core.setOutput either takes the value or throws (the file named by
\* GITHUB_OUTPUT cannot be written)
Report ==
    /\ pc = "loop"
    /\ LoopEnded(idx, allIssues)
    /\ \E thrown \in BOOLEAN :
         IF thrown
         THEN /\ failed' = Append(failed, "Error setting output")
              /\ returned' = <<SetOutputFailed>>
              /\ UNCHANGED output
         ELSE /\ output' = Append(output, formatUnassignments(variant, unassignments))
              /\ returned' = <<formatUnassignments(variant, unassignments)>>
              /\ UNCHANGED failed
    /\ pc' = "done"
    /\ UNCHANGED <<variant, items, assigned, page, allIssues, idx, now, elapsed, linked,
                   lookups, activeAssignees, inactiveAssignees, calls, unassignments>>
    /\ UNCHANGED <<openPRs, env, answered, runsLeft, earlier>>

(***************************************************************************)
(* The scripts that look at issue.assignee only.                           *)
(***************************************************************************)
\* the catch at the top of run: core.setFailed(error.message)
\* (unnamed/part_000: console.error and process.exit(1))
Abort(message) ==
    /\ failed' = Append(failed, message)
    /\ pc' = "done"
    /\ UNCHANGED returned

\* unnamed/part_000: process.env.INACTIVITY_PERIOD || '15'
DefaultPeriod == 15

NotANumber == [nan |-> TRUE, minutes |-> 0]
Minutes(m) == [nan |-> FALSE, minutes |-> m]

\* inactivityPeriodInMinutes as the script sets it; parseInt of a missing
\* input is NaN
PeriodOf(v, e) ==
    CASE v \in {"src", "part_002"} ->
           IF e.period = "" THEN NotANumber ELSE Minutes(ParseInt(e.period))
      [] v = "part_000" ->
           Minutes(ParseInt(IF e.period = "" THEN ToString(DefaultPeriod) ELSE e.period))
      [] OTHER -> Minutes(inactivityPeriodInMinutes)

\* the error a script raises before its first request; "" when it raises none
ConfigurationError(v, e) ==
    CASE v \in {"src", "part_002"} ->
           IF ~e.repository THEN "Cannot read properties of undefined (reading 'split')"
           ELSE ""
      [] v = "part_000" ->
           IF ~e.token THEN "GitHub token (WEB_TOKEN) is missing."
           ELSE IF ~e.repository THEN "GITHUB_REPOSITORY environment variable is missing."
           ELSE ""
      [] v \in {"first", "timeline"} ->
           IF ~e.token THEN "No authentication token provided."
           ELSE IF ~e.repository THEN "GITHUB_REPOSITORY environment variable is not set"
           ELSE ""
      [] v = "slack" ->
           IF ~e.token THEN "No authentication token provided."
           ELSE IF ~e.webhook THEN "Slack webhook URL missing."
           ELSE IF ~e.repository THEN "GITHUB_REPOSITORY environment variable is not set"
           ELSE ""
      [] OTHER ->
           \* "contributors": getInput(..., {required: true}) throws; with the
           \* input present, new Octokit({auth: token}) reads an undeclared name
           IF ~e.token THEN "Input required and not supplied: githubToken"
           ELSE "token is not defined"

\* the scripts that call users.getAuthenticated before the listing
Authenticates(v) == v \in {"first", "timeline", "slack"}

Startup ==
    /\ pc = "start"
    /\ IF ConfigurationError(variant, env) # ""
       THEN Abort(ConfigurationError(variant, env))
       ELSE /\ pc' = IF Authenticates(variant) THEN "auth" ELSE "listOnce"
            /\ UNCHANGED <<failed, returned>>
    /\ UNCHANGED <<variant, items, assigned, page, allIssues, idx, now, elapsed, linked,
                   lookups, activeAssignees, inactiveAssignees, calls, unassignments,
                   output, openPRs, env, answered, runsLeft, earlier>>

\* the authentication never taken for failed
AccessDeniedNever(ok) == FALSE

\* the catch around users.getAuthenticated throws 'Authentication failed'
AccessDenied(ok) == ~ok

Authenticate ==
    /\ pc = "auth"
    /\ \E ok \in BOOLEAN :
         /\ calls' = Append(calls, Call("users.getAuthenticated", 0, "", IF ok THEN 200 ELSE 401))
         /\ IF AccessDenied(ok)
            THEN Abort("Authentication failed")
            ELSE /\ pc' = "listOnce"
                 /\ UNCHANGED <<failed, returned>>
    /\ UNCHANGED <<variant, items, assigned, page, allIssues, idx, now, elapsed, linked,
                   lookups, activeAssignees, inactiveAssignees, unassignments,
                   output, openPRs, env, answered, runsLeft, earlier>>

\* issues.listForRepo, one request for the first perPage items; the pull
\* requests stay in the list
ListOnce ==
    /\ pc = "listOnce"
    /\ \E ok \in BOOLEAN :
         /\ calls' = Append(calls, Call("issues.listForRepo", 0, 1, IF ok THEN 200 ELSE 500))
         /\ IF ok
            THEN /\ allIssues' = PageOf(items, 1)
                 /\ pc' = "each"
                 /\ UNCHANGED <<failed, returned>>
            ELSE /\ Abort("listForRepo failed")
                 /\ UNCHANGED allIssues
    /\ UNCHANGED <<variant, items, assigned, page, idx, now, elapsed, linked,
                   lookups, activeAssignees, inactiveAssignees, unassignments,
                   output, openPRs, env, answered, runsLeft, earlier>>

\* new Date() near a period of so many minutes after the last update
ClockWindow(minutes) == (minutes * 60 * 1000 - 1)..(minutes * 60 * 1000 + MaxClockAhead)

\* the readings of the clock: around one minute and, where the period is
\* not set, around the default period as well
ClockReadingsFor(e) ==
    ClockReadings \cup IF e.period = "" THEN ClockWindow(DefaultPeriod) ELSE {}

\* issue.assignee is null
HasNoAssignee(issue) == Len(issue.assignees) = 0

\* issue.assignee: the first of the assignees
Assignee(issue) == issue.assignees[1]

\* now - lastActivity > inactivityPeriodInMinutes * 60 * 1000; false for NaN
IsInactiveFor(ms, period) == ~period.nan /\ ms > period.minutes * 60 * 1000

\* the scripts with a guard against linked pull requests
HasGuard(v) == v \in {"timeline", "slack"}

\* where an inactive item goes: the scripts without a guard leave out the
\* pull requests (&& !issue.pull_request), the others call their guard
AfterInactive(v, issue) ==
    IF HasGuard(v) THEN "linkedPR"
    ELSE IF issue.pull_request THEN "each" ELSE "unassign"

\* the Slack run asks checkUserMembership for the assignee at the head of
\* the loop, before it reads the clock
AsksBeforeClock(v) == v = "slack"

NextAssigned ==
    /\ pc = "each"
    /\ idx < Len(allIssues)
    /\ idx' = idx + 1
    /\ LET issue == allIssues[idx + 1] IN
       IF HasNoAssignee(issue) \/ Assignee(issue).site_admin
       THEN /\ pc' = "each"
            /\ lookups' = << >>
            /\ UNCHANGED <<now, elapsed, calls>>
       ELSE \E answer \in IF AsksBeforeClock(variant) THEN MembershipAnswers
                            ELSE {[repo |-> FALSE, member |-> FALSE]} :
              LET l == Lookup(Assignee(issue), answer)
                  asks == AsksBeforeClock(variant)
              IN /\ lookups' = IF asks THEN <<l>> ELSE << >>
                 /\ calls' = IF asks THEN calls \o LookupCalls(issue.number, l) ELSE calls
                 /\ IF asks /\ checkUserMembership(Assignee(issue).login, answer)
                    THEN /\ pc' = "each"
                         /\ UNCHANGED <<now, elapsed>>
                    ELSE \E t \in ClockReadingsFor(env) :
                           /\ t >= now
                           /\ now' = t
                           /\ elapsed' = (issue.number :> (t - issue.updated_at)) @@ elapsed
                           /\ pc' = IF IsInactiveFor(t - issue.updated_at,
                                                     PeriodOf(variant, env))
                                    THEN AfterInactive(variant, issue) ELSE "each"
    /\ UNCHANGED <<variant, items, assigned, page, allIssues, linked,
                   activeAssignees, inactiveAssignees, unassignments, output, failed,
                   returned, openPRs, env, answered, runsLeft, earlier>>

\* look the targets up in order until one is open (return true) or a lookup
\* fails (catch, return false)
RECURSIVE UntilOpen(_, _)
UntilOpen(targets, outs) ==
    IF targets = <<>> THEN [made |-> <<>>, open |-> {}]
    ELSE IF Head(outs) = "open"
         THEN [made |-> <<Head(targets)>>, open |-> {Head(targets)}]
         ELSE IF Head(outs) = "error"
              THEN [made |-> <<Head(targets)>>, open |-> {}]
              ELSE LET rest == UntilOpen(Tail(targets), Tail(outs)) IN
                   [made |-> <<Head(targets)>> \o rest.made, open |-> rest.open]

\* unnamed/part_001, first run: the cross-referenced pull requests of the
\* events of the issue
hasLinkedPR(issue, timeline, outs) ==
    IF ~timeline.ok
    THEN [open |-> {}, calls |-> <<Call("issues.listEvents", issue.number, "", 0)>>]
    ELSE LET r == UntilOpen(timeline.prs, outs) IN
         [open |-> r.open,
          calls |-> <<Call("issues.listEvents", issue.number, "", 0)>>
                    \o GetCalls(issue.number, r.made)]

\* /(?:close|...|resolved)\s+#(\d+)/gi
ClosingRefsSpaced(body) ==
    { ParseInt(SubSeq(body, h + 1, DigitsEnd(body, h + 1))) :
        h \in (UNION { { SkipSpaces(body, j + Len(Keywords[k])) :
                           j \in { x \in 1..(Len(body) - Len(Keywords[k])) :
                                     /\ SubSeq(body, x, x + Len(Keywords[k]) - 1) = Keywords[k]
                                     /\ CharAt(body, x + Len(Keywords[k])) = " " } } :
                       k \in 1..Len(Keywords) })
             \cap { x \in 1..(Len(body) - 1) :
                      CharAt(body, x) = "#" /\ DigitsEnd(body, x + 1) > x } }

\* what pulls.get answers for pull_number: issue.pull_request.number, a
\* field the listing does not carry: it throws, or gives data whose state is
\* not 'open'
DirectOutcomes(issue) == IF issue.pull_request THEN {"error", "other"} ELSE {"none"}

\* unnamed/part_001, Slack run: the inline checkLinkedPRs
checkLinkedPRsSlack(issue, direct, timeline, outs) ==
    LET c1 == IF direct = "none" THEN <<>> ELSE <<Call("pulls.get", issue.number, 0, 0)>>
        c2 == <<Call("issues.listEventsForTimeline", issue.number, "", 0)>>
        t == timeline.prs \o SetToSeq(ClosingRefsSpaced(issue.body))
        f == FetchAll(t, outs)
    IN IF direct = "error" THEN [open |-> {}, calls |-> c1]
       ELSE IF ~timeline.ok THEN [open |-> {}, calls |-> c1 \o c2]
       ELSE [open |-> Numbers(OpenOnly(f.got)),
             calls |-> c1 \o c2 \o GetCalls(issue.number, f.made)]

LinkedPRGuard ==
    /\ pc = "linkedPR"
    /\ LET issue == allIssues[idx] IN
       \E r \in IF variant = "timeline"
                THEN { hasLinkedPR(issue, to[1], to[2]) :
                         to \in UNION { { <<t, o>> : o \in FetchAnswers(variant, t.prs) } :
                                        t \in ListOutcomes(variant) } }
                ELSE { checkLinkedPRsSlack(issue, dto[1], dto[2], dto[3]) :
                         dto \in UNION { { <<d, t, o>> :
                                             o \in FetchAnswers(variant,
                                                     t.prs \o SetToSeq(ClosingRefsSpaced(issue.body))) } :
                                         d \in DirectOutcomes(issue),
                                         t \in ListOutcomes(variant) } } :
          /\ calls' = calls \o r.calls
          /\ linked' = (issue.number :> r.open) @@ linked
          /\ pc' = IF SkipsForLinkedPRs(r.open) THEN "each" ELSE "unassign"
    /\ UNCHANGED <<variant, items, assigned, page, allIssues, idx, now, elapsed, lookups,
                   activeAssignees, inactiveAssignees, unassignments, output, failed,
                   returned, openPRs, env, answered, runsLeft, earlier>>

\* the statuses a write is answered with: without a credential it is rejected
WriteStatuses(statuses) == IF env.token THEN statuses ELSE {401}

\* a failed update or comment ends the run: always where no try surrounds
\* the two requests, on status 403 where one does
WriteErrorEndsRun(v, status) ==
    IF v \in {"src", "part_000", "part_002"} THEN TRUE
    ELSE IsPermissionError(v, "", status)

\* issues.update with assignees: []
UnassignAll ==
    /\ pc = "unassign"
    /\ LET issue == allIssues[idx] IN
       \E status \in WriteStatuses(UpdateStatuses) :
         /\ calls' = Append(calls, Call("issues.update", issue.number, <<>>, status))
         /\ IF Ok(status)
            THEN /\ assigned' = [assigned EXCEPT ![issue.number] = <<>>]
                 /\ pc' = "mention"
                 /\ UNCHANGED <<failed, returned>>
            ELSE /\ UNCHANGED assigned
                 /\ IF WriteErrorEndsRun(variant, status)
                    THEN Abort("issues.update failed")
                    ELSE pc' = "each" /\ UNCHANGED <<failed, returned>>
    /\ UNCHANGED <<variant, items, page, allIssues, idx, now, elapsed, linked, lookups,
                   activeAssignees, inactiveAssignees, unassignments, output,
                   openPRs, env, answered, runsLeft, earlier>>

\* unassignments.push({user, repo, owner, issueNumber}) in the Slack run;
\* the other scripts keep no records
RecordsOf(v, issue) ==
    IF v = "slack"
    THEN <<[user |-> Assignee(issue).login, repo |-> repo, owner |-> owner,
            issueNumber |-> issue.number]>>
    ELSE <<>>

\* issues.createComment naming issue.assignee
CommentAssignee ==
    /\ pc = "mention"
    /\ LET issue == allIssues[idx] IN
       \E status \in WriteStatuses(CommentStatuses) :
         /\ calls' = Append(calls, Call("issues.createComment", issue.number,
                                        "@" \o Assignee(issue).login, status))
         /\ IF Ok(status)
            THEN /\ unassignments' = unassignments \o RecordsOf(variant, issue)
                 /\ pc' = "each"
                 /\ UNCHANGED <<failed, returned>>
            ELSE /\ UNCHANGED unassignments
                 /\ IF WriteErrorEndsRun(variant, status)
                    THEN Abort("issues.createComment failed")
                    ELSE pc' = "each" /\ UNCHANGED <<failed, returned>>
    /\ UNCHANGED <<variant, items, assigned, page, allIssues, idx, now, elapsed, linked,
                   lookups, activeAssignees, inactiveAssignees, output,
                   openPRs, env, answered, runsLeft, earlier>>

\* the end of the loop: the Slack run notifies when it has records
Finish ==
    /\ pc = "each"
    /\ idx = Len(allIssues)
    /\ pc' = IF variant = "slack" /\ Len(unassignments) > 0 THEN "notify" ELSE "done"
    /\ UNCHANGED <<variant, items, assigned, page, allIssues, idx, now, elapsed, linked,
                   lookups, activeAssignees, inactiveAssignees, calls, unassignments,
                   output, failed, returned, openPRs, env, answered, runsLeft, earlier>>

\* the text posted to the webhook
SlackMessage(records) ==
    "Automatically unassigned:\n"
    \o Join([i \in 1..Len(records) |->
               "* '" \o records[i].user \o "' from <https://github.com/" \o records[i].owner
               \o "/" \o records[i].repo \o "/issues/" \o ToString(records[i].issueNumber)
               \o "|" \o records[i].repo \o "#" \o ToString(records[i].issueNumber) \o ">\n"],
            "")

\* the answers of the webhook: ok, not ok, and (status 0) a thrown fetch
WebhookStatuses == {200, 500, 0}

\* a failed post leaves the function as an exception
NotificationThrowsWhenNotOk(status) == ~Ok(status)

\* sendSlackNotification catches what the post throws and what it throws
\* itself for !response.ok; it logs and returns
NotificationThrows(status) == FALSE

sendSlackNotification ==
    /\ pc = "notify"
    /\ \E status \in WebhookStatuses :
         /\ calls' = Append(calls, Call("slack.webhook", 0, SlackMessage(unassignments), status))
         /\ IF NotificationThrows(status)
            THEN Abort("HTTP error!")
            ELSE pc' = "done" /\ UNCHANGED <<failed, returned>>
    /\ UNCHANGED <<variant, items, assigned, page, allIssues, idx, now, elapsed, linked,
                   lookups, activeAssignees, inactiveAssignees, unassignments,
                   output, openPRs, env, answered, runsLeft, earlier>>

Next ==
    \/ AccessCheck
    \/ getAllIssues
    \/ NextIssue
    \/ checkLinkedPRs
    \/ ClassifyAssignees
    \/ UpdateIssue
    \/ CreateComment
    \/ Report
    \/ Startup
    \/ Authenticate
    \/ ListOnce
    \/ NextAssigned
    \/ LinkedPRGuard
    \/ UnassignAll
    \/ CommentAssignee
    \/ Finish
    \/ sendSlackNotification

Spec == Init /\ [][Next]_vars

(***************************************************************************)
(* Two runs of the script, one after the other, on the same repository.    *)
(***************************************************************************)
\* the issues an update of the run succeeded for
Updated == { calls[k].issue : k \in { j \in 1..Len(calls) :
                 calls[j].op = "issues.update" /\ Ok(calls[j].status) } }

\* what the listing serves after the run: the assignees the updates left;
\* updated_at of an updated issue is the time of the update when bumped
Relisted(bumped) ==
    [k \in 1..Len(items) |->
        [items[k] EXCEPT
           !.assignees = IF k \in DOMAIN assigned
                         THEN [i \in 1..Len(assigned[k]) |-> User(assigned[k][i])]
                         ELSE <<>>,
           !.updated_at = IF bumped /\ k \in Updated THEN now ELSE @]]

\* the locals of the run that starts
StartRun ==
    /\ page' = 1
    /\ allIssues' = <<>>
    /\ idx' = 0
    /\ elapsed' = << >>
    /\ linked' = << >>
    /\ lookups' = << >>
    /\ answered' = << >>
    /\ activeAssignees' = <<>>
    /\ inactiveAssignees' = <<>>
    /\ calls' = <<>>
    /\ unassignments' = <<>>
    /\ output' = <<>>
    /\ failed' = <<>>
    /\ returned' = <<>>

\* the script is started again
Rerun ==
    /\ pc = "done"
    /\ runsLeft > 0
    /\ runsLeft' = runsLeft - 1
    /\ earlier' = [ran |-> TRUE, updated |-> Updated, linked |-> linked,
                   answers |-> answered]
    /\ \E bumped \in BOOLEAN : items' = Relisted(bumped)
    /\ pc' = "access"
    /\ StartRun
    /\ UNCHANGED <<variant, assigned, now, openPRs, env>>

\* one issue of any shape, or two issues assigned to alice
TwiceWorlds ==
    { World(0, FALSE, shapes) : shapes \in { <<s>> : s \in Shapes } \cup {<<Plain, Plain>>} }

InitTwice ==
    /\ variant \in Variants
    /\ items \in TwiceWorlds
    /\ assigned = AssignedOf(items)
    /\ openPRs \in SUBSET {LinkedPR}
    /\ env = EnvComplete
    /\ pc = "access"
    /\ now = Threshold - 1
    /\ FreshRun
    /\ runsLeft = 1
    /\ earlier = NoEarlier

NextTwice ==
    \/ AccessCheck
    \/ getAllIssues
    \/ NextIssue
    \/ checkLinkedPRs
    \/ ClassifyAssignees
    \/ UpdateIssue
    \/ CreateComment
    \/ Report
    \/ Rerun

SpecTwice == InitTwice /\ [][NextTwice]_vars

(***************************************************************************)
(* One run of a full pipeline while somebody else assigns a user to an     *)
(* issue the run has already listed.                                       *)
(***************************************************************************)
\* the user somebody else assigns
Newcomer == "carol"

\* POST /issues/{n}/assignees by another actor, after the listing; it is
\* entered in the log of requests where upstream received it
ExternalAssign ==
    /\ pc \notin {"access", "list", "done"}
    /\ \E n \in DOMAIN assigned :
         /\ \A i \in 1..Len(assigned[n]) : assigned[n][i] # Newcomer
         /\ \A k \in 1..Len(calls) :
              ~(calls[k].op = "external.addAssignees" /\ calls[k].issue = n)
         /\ assigned' = [assigned EXCEPT ![n] = Append(@, Newcomer)]
         /\ calls' = Append(calls, Call("external.addAssignees", n, Newcomer, 201))
    /\ UNCHANGED <<variant, items, pc, page, allIssues, idx, now, elapsed, linked,
                   lookups, activeAssignees, inactiveAssignees, unassignments, output,
                   failed, returned, openPRs, env, answered, runsLeft, earlier>>

InitConcurrent ==
    /\ variant \in Variants
    /\ items \in TwiceWorlds
    /\ assigned = AssignedOf(items)
    /\ openPRs \in SUBSET {LinkedPR}
    /\ env = EnvComplete
    /\ pc = "access"
    /\ now = Threshold - 1
    /\ FreshRun
    /\ runsLeft = 0
    /\ earlier = NoEarlier

NextConcurrent ==
    \/ AccessCheck
    \/ getAllIssues
    \/ NextIssue
    \/ checkLinkedPRs
    \/ ClassifyAssignees
    \/ UpdateIssue
    \/ CreateComment
    \/ Report
    \/ ExternalAssign

SpecConcurrent == InitConcurrent /\ [][NextConcurrent]_vars

(***************************************************************************)
(* formatUnassignments on its own: the run is at the end of its loop with  *)
(* any list of records collected.                                          *)
(***************************************************************************)
MaxRecords == 3

RecordUsers == {"u1", "u2", "u3"}
RecordIssues == {5, 9}

Record(u, n) ==
    [user |-> u, repo |-> repo, owner |-> owner, issueNumber |-> n, issueUrl |-> issueUrl(n)]

RecordLists ==
    UNION { [1..len -> { Record(u, n) : u \in RecordUsers, n \in RecordIssues }] :
              len \in 0..MaxRecords }

InitFormat ==
    /\ variant \in Variants
    /\ items = <<>>
    /\ assigned = << >>
    /\ openPRs = {}
    /\ env = EnvComplete
    /\ pc = "loop"
    /\ now = Threshold - 1
    /\ page = 1
    /\ allIssues = <<>>
    /\ idx = 0
    /\ elapsed = << >>
    /\ linked = << >>
    /\ lookups = << >>
    /\ answered = << >>
    /\ activeAssignees = <<>>
    /\ inactiveAssignees = <<>>
    /\ calls = <<>>
    /\ unassignments \in RecordLists
    /\ output = <<>>
    /\ failed = <<>>
    /\ returned = <<>>
    /\ runsLeft = 0
    /\ earlier = NoEarlier

NextFormat == Report

SpecFormat == InitFormat /\ [][NextFormat]_vars

(***************************************************************************)
(* Properties.                                                             *)
(***************************************************************************)
FullPipelines == {"rest", "raw"}

Last(s) == s[Len(s)]

\* no request about issue n was sent and no record names it
Untouched(n) ==
    /\ \A k \in 1..Len(calls) : calls[k].issue # n
    /\ \A k \in 1..Len(unassignments) : unassignments[k].issueNumber # n

\* no update, no comment and no record for issue n
Unmodified(n) ==
    /\ \A k \in 1..Len(calls) :
         calls[k].issue = n => calls[k].op \notin {"issues.update", "issues.createComment"}
    /\ \A k \in 1..Len(unassignments) : unassignments[k].issueNumber # n

\* the issues the loop has taken up so far
Visited == { allIssues[i] : i \in 1..idx }

\* C1: in scripts/index.js and unnamed/part_003 an issue reaches the
\* linked-PR guard only if the elapsed time the run computed for it is
\* strictly greater than inactivityPeriodInMinutes * 60 * 1000 ms; an issue
\* whose elapsed time is equal to the threshold or less gets no request at
\* all (no lookup, update or comment) and no unassignment record.
C1_StrictThreshold ==
    variant \in FullPipelines =>
        \A n \in DOMAIN elapsed :
            /\ n \in DOMAIN linked => elapsed[n] > Threshold
            /\ elapsed[n] <= Threshold => Untouched(n)

\* an assigned issue was read exactly at the threshold and the run went on to its end
C1_Witness ==
    /\ variant \in FullPipelines
    /\ pc = "done"
    /\ output # <<>>
    /\ \E n \in DOMAIN elapsed : elapsed[n] = Threshold

\* C2: a listed issue without assignees causes no linked-PR lookup, no
\* membership lookup, no update and no comment, and no unassignment record,
\* whatever its inactivity (the clock is not even read for it).
C2_NoAssigneesNoEffect ==
    \A issue \in Visited :
        Len(issue.assignees) = 0 =>
            /\ Untouched(issue.number)
            /\ issue.number \notin DOMAIN linked
            /\ issue.number \notin DOMAIN elapsed

\* the run passed an issue without assignees and then modified a later issue
C2_Witness ==
    /\ \E issue \in Visited : Len(issue.assignees) = 0
    /\ \E k \in 1..Len(calls) : calls[k].op = "issues.update"

\* C3: in scripts/index.js and unnamed/part_003, an issue for which
\* checkLinkedPRs found an open linked pull request gets no update, no
\* comment and no unassignment record, whatever its assignees are.
C3_LinkedWorkExempts ==
    variant \in FullPipelines =>
        \A n \in DOMAIN linked : linked[n] # {} => Unmodified(n)

\* an issue whose only assignee is neither site admin nor owner was exempted,
\* and the run went on
C3_Witness ==
    /\ variant \in FullPipelines
    /\ pc = "done"
    /\ \E issue \in Visited :
         /\ issue.number \in DOMAIN linked
         /\ linked[issue.number] # {}
         /\ issue.assignees = <<User("alice")>>

\* the last request sent is request op about the issue the loop is at
JustSent(op) ==
    /\ calls # <<>>
    /\ idx > 0
    /\ Last(calls).op = op
    /\ Last(calls).issue = allIssues[idx].number

\* what the lookups of the current issue say about one assignee
ClassifiedActive(l) ==
    \/ l.site_admin
    \/ l.repo = "ok" /\ l.login = RepoOwnerLogin
    \/ l.member = "ok"

RECURSIVE LoginsWhere(_, _)
LoginsWhere(ls, active) ==
    IF ls = <<>> THEN <<>>
    ELSE (IF ClassifiedActive(Head(ls)) = active THEN <<Head(ls).login>> ELSE <<>>)
         \o LoginsWhere(Tail(ls), active)

\* C4: in scripts/index.js and unnamed/part_003, the assignee list an update
\* sends is exactly the listed assignees the run classified active (site
\* admin, owner by the repository lookup, or member by the membership
\* lookup), in listing order, and a successful update leaves exactly them
\* assigned: no active assignee is dropped, no inactive one is kept.
C4_UpdateKeepsActive ==
    (variant \in FullPipelines /\ JustSent("issues.update")) =>
        LET c == Last(calls)
            issue == allIssues[idx]
        IN /\ Len(lookups) = Len(issue.assignees)
           /\ \A i \in 1..Len(lookups) :
                /\ lookups[i].login = issue.assignees[i].login
                /\ lookups[i].site_admin = issue.assignees[i].site_admin
           /\ c.arg = LoginsWhere(lookups, TRUE)
           /\ Ok(c.status) => assigned[issue.number] = LoginsWhere(lookups, TRUE)
           /\ ~Ok(c.status) => assigned[issue.number] = Logins(issue.assignees)

\* a successful update of an issue with active and inactive assignees
C4_Witness ==
    /\ variant \in FullPipelines
    /\ JustSent("issues.update")
    /\ Ok(Last(calls).status)
    /\ assigned[allIssues[idx].number] # <<>>
    /\ Len(assigned[allIssues[idx].number]) < Len(allIssues[idx].assignees)

Count(s, Test(_)) == Cardinality({ i \in 1..Len(s) : Test(s[i]) })

\* C5: after the update and the comment of an issue both succeeded, the run
\* has posted exactly one comment on it, the mention list of that comment is
\* the "@login" of every inactive assignee joined by ", " and names no active
\* assignee, and the collection holds exactly one record (user, owner, repo,
\* issue number, issue URL) per inactive login and none for an active one.
C5_OneCommentOneRecordEach ==
    (variant \in FullPipelines /\ JustSent("issues.createComment")
       /\ Ok(Last(calls).status)) =>
        LET c == Last(calls)
            issue == allIssues[idx]
            n == issue.number
        IN /\ Count(calls, LAMBDA x : x.op = "issues.createComment" /\ x.issue = n) = 1
           /\ Count(calls, LAMBDA x : x.op = "issues.update" /\ x.issue = n) = 1
           /\ c.arg = Join([i \in 1..Len(LoginsWhere(lookups, FALSE)) |->
                               "@" \o LoginsWhere(lookups, FALSE)[i]], ", ")
           /\ \A i \in 1..Len(lookups) :
                /\ Includes(c.arg, "@" \o lookups[i].login) <=> ~ClassifiedActive(lookups[i])
                /\ Count(unassignments,
                         LAMBDA r : r.issueNumber = n /\ r.user = lookups[i].login)
                   = IF ClassifiedActive(lookups[i]) THEN 0 ELSE 1
           /\ \A k \in 1..Len(unassignments) :
                unassignments[k].issueNumber = n =>
                    /\ unassignments[k].owner = owner
                    /\ unassignments[k].repo = repo
                    /\ unassignments[k].issueUrl
                       = "https://github.com/octo/repo/issues/" \o ToString(n)
                    /\ \E i \in 1..Len(lookups) : lookups[i].login = unassignments[k].user

\* the scenario of the specification: alice (no member) and bob (member) are
\* assigned; alice is removed, bob kept, one comment mentions @alice, one
\* record names alice
C5_Witness ==
    /\ variant \in FullPipelines
    /\ JustSent("issues.createComment")
    /\ Ok(Last(calls).status)
    /\ Last(calls).arg = "@alice"
    /\ assigned[allIssues[idx].number] = <<"bob">>
    /\ Len(unassignments) = 1
    /\ unassignments[1].user = "alice"

Range(f) == { f[i] : i \in DOMAIN f }

\* the classification the run made agrees with the answers it received
ClassificationRule ==
    \A i \in 1..Len(lookups) :
        /\ lookups[i].login \in Range(activeAssignees) <=> ClassifiedActive(lookups[i])
        /\ lookups[i].login \in Range(inactiveAssignees) <=> ~ClassifiedActive(lookups[i])

\* C6 (amended): an assignee is classified active if and only if its
\* site_admin flag is set, or the repository lookup of checkUserMembership
\* succeeded and reports its login as the owner's, or the membership lookup
\* for it succeeded; a failed lookup of either kind makes the assignee
\* inactive, and the classification never ends the run or reports a failure.
C6_Classification ==
    [][pc = "classify" =>
         /\ pc' \in {"loop", "update"}
         /\ failed' = <<>>
         /\ Len(lookups') = Len(allIssues[idx].assignees)
         /\ ClassificationRule']_vars

\* both kinds of lookup failed in one classification, and the run goes on to
\* unassign both users
C6_Witness ==
    /\ pc = "update"
    /\ failed = <<>>
    /\ \E i, j \in 1..Len(lookups) :
         /\ lookups[i].repo = "failed"
         /\ lookups[j].member = "failed"
         /\ {lookups[i].login, lookups[j].login} \subseteq Range(inactiveAssignees)

\* C6 as stated: active if and only if site admin, or the login is the
\* repository owner's, or the membership lookup succeeded.
C6_AsStated ==
    \A i \in 1..Len(lookups) :
        lookups[i].login \in Range(activeAssignees)
            <=> \/ lookups[i].site_admin
                \/ lookups[i].login = RepoOwnerLogin
                \/ lookups[i].member = "ok"

ListCalls == { k \in 1..Len(calls) : calls[k].op = "issues.listForRepo" }
WriteCalls == { k \in 1..Len(calls) : calls[k].op \in {"issues.update", "issues.createComment"} }

\* C7: when no page request failed, the issues getAllIssues returns are all
\* the items of the listing that are not pull requests.
C7_ListingComplete ==
    (/\ pc \notin {"access", "list"}
     /\ ListCalls # {}
     /\ \A k \in ListCalls : Ok(calls[k].status)) =>
        allIssues = SelectSeq(items, LAMBDA item : ~item.pull_request)

\* C8: a run in which a page request of the listing failed ends reported as
\* failed, having processed no issue and sent no update and no comment.
C8_ListingFailureAborts ==
    (pc = "done" /\ \E k \in ListCalls : ~Ok(calls[k].status)) =>
        /\ failed # <<>>
        /\ idx = 0
        /\ WriteCalls = {}

\* a 403 answer to an update or a comment is the last request of the run,
\* which ends failed with '' returned and no output set, at that issue
StopsAt403 ==
    \A k \in WriteCalls :
        calls[k].status = 403 =>
            /\ k = Len(calls)
            /\ pc = "done"
            /\ Len(failed) = 1
            /\ returned = <<"">>
            /\ output = <<>>
            /\ allIssues[idx].number = calls[k].issue

\* C9: with the REST client (scripts/index.js, and the same catch in
\* scripts/unassign-inactive-issues.js), an update or a comment answered
\* with status 403 stops the run at once: it is the last request sent, no
\* later issue is taken up, core.setFailed is called once, '' is returned.
C9_PermissionErrorStops == variant \in {"rest", "unassign"} => StopsAt403

\* the run stopped at a 403 while an assigned issue was still waiting
C9_Witness ==
    /\ variant = "rest"
    /\ pc = "done"
    /\ \E k \in WriteCalls : calls[k].status = 403
    /\ idx < Len(allIssues)
    /\ allIssues[idx + 1].assignees # <<>>

\* C10: with raw HTTP calls (unnamed/part_003), an update or a comment
\* answered with status 403 stops the run at once and marks it failed.
C10_RawPermissionErrorStops == variant = "raw" => StopsAt403

\* C11: an update or a comment that is answered with any status other than
\* success ends the run: it is the last request sent, the run is reported as
\* failed and no later issue is taken up.
C11_AnyWriteFailureStops ==
    \A k \in WriteCalls :
        ~Ok(calls[k].status) =>
            /\ k = Len(calls)
            /\ pc = "done"
            /\ failed # <<>>
            /\ allIssues[idx].number = calls[k].issue

\* C14: in scripts/unassign-inactive-issues.js, an issue whose body names a
\* pull request that is open upstream (the body scan of checkLinkedPRs finds
\* it) is skipped: it gets no update, no comment and no unassignment record.
C14_UnassignSkipsLinked ==
    variant = "unassign" =>
        \A issue \in Visited :
            BodyRefs(issue.body) \cap openPRs # {} => Unmodified(issue.number)

\* the answers of this run about issue n are those of the run before: the
\* same open linked pull requests, the same lookup results for every assignee
SameAnswers(n) ==
    /\ n \in DOMAIN linked =>
         n \in DOMAIN earlier.linked /\ linked[n] = earlier.linked[n]
    /\ n \in DOMAIN answered =>
         /\ n \in DOMAIN earlier.answers
         /\ Range(answered[n]) \subseteq Range(earlier.answers[n])

\* C12: when the script runs again after a run whose update of an issue
\* succeeded, and the API gives the second run the same linked-PR and
\* membership answers about that issue, the second run sends no update and
\* no comment for it and records no unassignment for it.
C12_SecondRunChangesNothing ==
    earlier.ran =>
        \A n \in earlier.updated : SameAnswers(n) => Unmodified(n)

\* the second run classified the assignees an update of the first run had
\* left on the issue, with the same answers, and ended
C12_Witness ==
    /\ earlier.ran
    /\ pc = "done"
    /\ output # <<>>
    /\ \E n \in earlier.updated :
         /\ n \in DOMAIN answered
         /\ answered[n] # <<>>
         /\ SameAnswers(n)

\* the places of the records that are the first of their issue
FirstOfIssue(records) ==
    { i \in 1..Len(records) :
        \A j \in 1..(i - 1) : records[j].issueNumber # records[i].issueNumber }

\* the users recorded for issue n, in the order of the records
UsersOf(records, n) ==
    LET of == SelectSeq(records, LAMBDA r : r.issueNumber = n) IN
    [i \in 1..Len(of) |-> of[i].user]

\* the entry of the summary for issue n
EntryOf(v, records, n) ==
    (IF v = "unassign" THEN "* " ELSE "")
    \o Join([i \in 1..Len(UsersOf(records, n)) |-> "@" \o UsersOf(records, n)[i]], ", ")
    \o " from <https://github.com/" \o owner \o "/" \o repo \o "/issues/" \o ToString(n)
    \o "|" \o repo \o "#" \o ToString(n) \o ">"

\* C13: the summary formatUnassignments returns has exactly one entry per
\* distinct issue of the records; the entry names every user recorded for
\* that issue, in the order of the records, with the link of the issue; the
\* entries stand in the order in which their issues first occur in the
\* records; the summary of no records is the empty string.
C13_FormatGroupsByIssue ==
    (pc = "done" /\ failed = <<>>) =>
        LET firsts == SetToSeq(FirstOfIssue(unassignments))
            entries == [i \in 1..Len(firsts) |->
                          EntryOf(variant, unassignments,
                                  unassignments[firsts[i]].issueNumber)]
        IN /\ output = <<Join(entries, IF variant = "unassign" THEN "\n\n" ELSE ", ")>>
           /\ returned = output
           /\ unassignments = <<>> => output = <<"">>

\* the example of the specification: u1 and u2 recorded for issue 5, then u3
\* for issue 9
C13_Witness ==
    /\ pc = "done"
    /\ variant = "rest"
    /\ [i \in 1..Len(unassignments) |->
          <<unassignments[i].user, unassignments[i].issueNumber>>]
       = << <<"u1", 5>>, <<"u2", 5>>, <<"u3", 9>> >>
    /\ output = << "@u1, @u2 from <https://github.com/octo/repo/issues/5|repo#5>, "
                   \o "@u3 from <https://github.com/octo/repo/issues/9|repo#9>" >>

SingleAssigneeScripts == {"src", "part_000", "part_002", "first"}

\* C15: in src/index.js, unnamed/part_000, unnamed/part_002 and the first
\* run of scripts/index.js, an assignee whose site_admin flag is set is
\* still assigned to its issue whatever the run did to the issue, also when
\* the run unassigned an inactive co-assignee.
C15_SiteAdminStaysAssigned ==
    variant \in SingleAssigneeScripts =>
        \A issue \in Visited :
            \A i \in 1..Len(issue.assignees) :
                issue.assignees[i].site_admin =>
                    issue.assignees[i].login \in Range(assigned[issue.number])

\* C16: in every script, an item of the listing whose pull_request field is
\* set gets no update and no comment.
C16_PullRequestsUntouched ==
    \A k \in 1..Len(items) : items[k].pull_request => Unmodified(items[k].number)

\* the requests sent to the GitHub API
ApiCalls == { k \in 1..Len(calls) : calls[k].op # "slack.webhook" }

\* C17: a run that finds the credential or the repository context missing
\* sends no request to the API and ends reported as failed.
C17_MissingConfigurationStopsFirst ==
    (~env.token \/ ~env.repository) =>
        /\ ApiCalls = {}
        /\ pc \in {"start", "access", "done"}
        /\ pc = "done" => failed # <<>>

\* the requests that test the access before the listing
ProbeCalls ==
    { k \in 1..Len(calls) :
        \/ calls[k].op = "users.getAuthenticated"
        \/ calls[k].op = "repos.get" /\ calls[k].arg = "probe" }

\* C18: when the initial access check (users.getAuthenticated, or the probe
\* repos.get) is rejected, the run ends at once: the rejected check is the
\* only request sent, so the listing is never requested and nothing is
\* updated or commented on, and the run is reported as failed with no output.
C18_RejectedAccessCheckAborts ==
    \A k \in ProbeCalls :
        ~Ok(calls[k].status) =>
            /\ Len(calls) = 1
            /\ pc = "done"
            /\ Len(failed) = 1
            /\ output = <<>>
            /\ unassignments = <<>>
            /\ assigned = AssignedOf(items)

\* the authentication of the first run of scripts/index.js was rejected
C18_Witness ==
    /\ variant = "first"
    /\ pc = "done"
    /\ calls = <<Call("users.getAuthenticated", 0, "", 401)>>
    /\ \E k \in 1..Len(items) : items[k].assignees # <<>>

WebhookCalls == { k \in 1..Len(calls) : calls[k].op = "slack.webhook" }

\* C19: in the Slack run of unnamed/part_001, a post to the webhook that
\* throws or is answered not ok does not fail the run: the run ends with no
\* core.setFailed, and the unassignments it made and recorded stand.
C19_WebhookFailureNotFatal ==
    \A k \in WebhookCalls :
        ~Ok(calls[k].status) =>
            /\ k = Len(calls)
            /\ pc = "done"
            /\ failed = <<>>
            /\ unassignments # <<>>
            /\ \A i \in 1..Len(unassignments) :
                 assigned[unassignments[i].issueNumber] = <<>>

\* two issues were unassigned and the post of the summary was answered not ok
C19_Witness ==
    /\ variant = "slack"
    /\ pc = "done"
    /\ Len(unassignments) = 2
    /\ WebhookCalls # {}
    /\ Last(calls).op = "slack.webhook"
    /\ Last(calls).status = 500

\* C20: the Slack run of unnamed/part_001 started with no webhook URL still
\* requests the listing and ends without failure; only the notification is
\* left out.
C20_WebhookOptional ==
    (variant = "slack" /\ ~env.webhook /\ pc = "done") =>
        /\ failed = <<>>
        /\ ListCalls # {}
        /\ WebhookCalls = {}

\* the scripts that read the inactivity period from a setting
ConfigurablePeriod == {"src", "part_000", "part_002"}

\* C21: in src/index.js, unnamed/part_000 and unnamed/part_002 run without
\* the inactivity period set, the comparison is made against the fallback of
\* 15 minutes: once the loop has passed an issue that is no pull request,
\* whose first assignee is no site admin and whose elapsed time exceeded
\* 15 minutes, an update of that issue has been sent.
C21_FallbackThreshold ==
    (variant \in ConfigurablePeriod /\ env.period = "") =>
        \A i \in 1..idx :
            LET issue == allIssues[i] IN
            (/\ pc \in {"each", "done"} \/ i < idx
             /\ ~issue.pull_request
             /\ issue.assignees # <<>>
             /\ ~issue.assignees[1].site_admin
             /\ issue.number \in DOMAIN elapsed
             /\ elapsed[issue.number] > DefaultPeriod * 60 * 1000) =>
                \E k \in 1..Len(calls) :
                    calls[k].op = "issues.update" /\ calls[k].issue = issue.number

\* somebody else assigned the newcomer to issue n before the last request
AddedBefore(n) ==
    \E k \in 1..(Len(calls) - 1) :
        calls[k].op = "external.addAssignees" /\ calls[k].issue = n

\* C22: right after a successful update, the assignees upstream has for the
\* issue are exactly the assignees of the listing the run classified
\* active, in listing order: a user somebody else assigned between the
\* listing and the update is no longer assigned (she is not in the listing,
\* so not in the active subset).
C22_UpdateReplacesAssignees ==
    (JustSent("issues.update") /\ Ok(Last(calls).status)) =>
        LET issue == allIssues[idx] IN
        /\ assigned[issue.number] = LoginsWhere(lookups, TRUE)
        /\ \A i \in 1..Len(lookups) : lookups[i].login = issue.assignees[i].login
        /\ Newcomer \notin Range(assigned[issue.number])

\* the newcomer was assigned to the issue after the listing, and the update
\* that followed left bob alone on the issue
C22_Witness ==
    /\ JustSent("issues.update")
    /\ Ok(Last(calls).status)
    /\ AddedBefore(allIssues[idx].number)
    /\ assigned[allIssues[idx].number] = <<"bob">>

\* the requests of kind op sent for issue n
SentFor(n, op) == { k \in 1..Len(calls) : calls[k].op = op /\ calls[k].issue = n }

\* the requests of kind op among those of one call of checkLinkedPRs
Requests(r, op) == { k \in 1..Len(r.calls) : r.calls[k].op = op }

\* the pull requests a lookup reported open
AnsweredOpen(targets, outs) == { targets[i] : i \in { x \in 1..Len(targets) : outs[x] = "open" } }

\* C23: on every issue the run checks and for every answer of the API,
\* checkLinkedPRs of scripts/index.js sends the search and one lookup for
\* every pull request the three methods name (the issue itself when it is a
\* pull request, the pull requests of the search, the references of the
\* body), whatever the methods before found; its result is the set of the
\* numbers of the pull requests a lookup reported open, one entry per number,
\* and the issue is exempted exactly when that set is not empty. In the run,
\* an issue that was checked has its search sent once and a lookup sent for
\* every reference of its body.
C23_AllMethodsUnion ==
    (variant = "rest" /\ idx \in 1..Len(allIssues)) =>
        LET issue == allIssues[idx]
            n == issue.number
        IN /\ pc = "guard" =>
                \A search \in ListOutcomes(variant) :
                    LET targets == TargetsRest(issue, search) IN
                    \A outs \in FetchAnswers(variant, targets) :
                        LET r == checkLinkedPRsRest(issue, search, outs) IN
                        /\ Cardinality(Requests(r, "search.issuesAndPullRequests")) = 1
                        /\ Cardinality(Requests(r, "pulls.get")) = Len(targets)
                        /\ Len(targets) = (IF issue.pull_request THEN 1 ELSE 0)
                                          + Len(search.prs)
                                          + Cardinality(BodyRefs(issue.body))
                        /\ r.open = AnsweredOpen(targets, outs)
                        /\ SkipsForLinkedPRs(r.open) <=> AnsweredOpen(targets, outs) # {}
           /\ n \in DOMAIN linked =>
                /\ Cardinality(SentFor(n, "search.issuesAndPullRequests")) = 1
                /\ Cardinality(SentFor(n, "pulls.get"))
                     >= Cardinality(BodyRefs(issue.body))
                /\ linked[n] \subseteq { calls[k].arg : k \in SentFor(n, "pulls.get") }
                                       \cap openPRs

\* the search named the open pull request the body refers to as well: it was
\* looked up twice, and is once in the result that exempts the issue
C23_Witness ==
    /\ variant = "rest"
    /\ pc = "loop"
    /\ idx >= 1
    /\ allIssues[idx].number \in DOMAIN linked
    /\ linked[allIssues[idx].number] = {LinkedPR}
    /\ BodyRefs(allIssues[idx].body) = {LinkedPR}
    /\ Cardinality({ k \in SentFor(allIssues[idx].number, "pulls.get") :
                       calls[k].arg = LinkedPR }) = 2

\* the pull requests a lookup reported open before any lookup threw
OpenBeforeThrow(targets, outs) ==
    { targets[i] : i \in { x \in 1..Len(targets) :
                             outs[x] = "open" /\ \A j \in 1..(x - 1) : outs[j] # "throw" } }

\* what one call of checkLinkedPRs of a full pipeline can return for the
\* issue, with the pull requests its lookups reported open
LinkedResults(issue) ==
    IF variant = "rest"
    THEN UNION { { [open |-> checkLinkedPRsRest(issue, s, o).open,
                    reported |-> OpenBeforeThrow(TargetsRest(issue, s), o)] :
                     o \in FetchAnswers(variant, TargetsRest(issue, s)) } :
                 s \in ListOutcomes(variant) }
    ELSE UNION { { [open |-> checkLinkedPRsRaw(issue, ts[1], ts[2], o).open,
                    reported |-> OpenBeforeThrow(TargetsRaw(issue, ts[1], ts[2]), o)] :
                     o \in FetchAnswers(variant, TargetsRaw(issue, ts[1], ts[2])) } :
                 ts \in ListOutcomes(variant) \X ListOutcomes(variant) }

\* C24: whatever lookups of a call of checkLinkedPRs fail (the request for
\* the timeline or the search, the lookup of one pull request, a lookup that
\* throws), every pull request another lookup of the call reported open is
\* in the result, so the issue is exempted.
C24_FailedLookupOnlyEmpty ==
    (variant \in FullPipelines /\ pc = "guard") =>
        \A r \in LinkedResults(allIssues[idx]) :
            /\ r.reported \subseteq r.open
            /\ r.reported # {} => SkipsForLinkedPRs(r.open)

\* the requests about an issue, in the order they were sent
IssueCalls == { k \in 1..Len(calls) : calls[k].issue # 0 }

\* the loop moves to the next place of the list or stays, and the requests
\* a step sends about an issue are about the issue at the place the loop is
\* at, sent while it stays there
InListOrder ==
    /\ idx' \in {idx, idx + 1}
    /\ Len(calls') >= Len(calls)
    /\ SubSeq(calls', 1, Len(calls)) = calls
    /\ \A k \in (Len(calls) + 1)..Len(calls') :
         calls'[k].issue # 0 =>
             /\ idx' = idx
             /\ idx \in 1..Len(allIssues)
             /\ calls'[k].issue = allIssues[idx].number

\* what the body of the loop keeps about an issue is empty when the next
\* issue is taken up
NothingCarried ==
    (pc = "loop" /\ pc' # "done" /\ idx' = idx + 1) =>
        lookups' = << >> /\ activeAssignees' = <<>> /\ inactiveAssignees' = <<>>

\* the records there were are still there, in place and unchanged
AppendOnly ==
    /\ Len(unassignments') >= Len(unassignments)
    /\ SubSeq(unassignments', 1, Len(unassignments)) = unassignments

\* C25: the run takes the issues one at a time in list order: every request
\* about an issue (lookup of linked pull requests, lookup of membership,
\* update, comment) is sent and answered before the first request about the
\* next issue of the list, and none is sent about an issue again once a
\* later one was taken up; from one issue to the next only the collection of
\* unassignment records is carried over, and each step leaves the records
\* it already holds in place.
C25_OneIssueAtATime ==
    [][(variant \in Variants) => (InListOrder /\ NothingCarried /\ AppendOnly)]_vars

\* two issues were unassigned one after the other and the run ended with
\* the records of both
C25_Witness ==
    /\ variant \in FullPipelines
    /\ pc = "done"
    /\ Len(allIssues) = 2
    /\ \E k, l \in 1..Len(unassignments) :
         unassignments[k].issueNumber = 1 /\ unassignments[l].issueNumber = 2
    /\ \E k, l \in IssueCalls :
         /\ calls[k].op = "issues.createComment" /\ calls[k].issue = 1
         /\ calls[l].op = "issues.update" /\ calls[l].issue = 2

\* the updates and the comments sent for issue n
UpdatesOf(n) == SentFor(n, "issues.update")
CommentsOf(n) == SentFor(n, "issues.createComment")

\* C26: in a run of a full pipeline every issue gets at most one update
\* request and at most one comment request; a comment on an issue is sent
\* only after the update of that issue was sent in this run and succeeded,
\* so an issue whose update failed gets no comment.
C26_UpdateThenComment ==
    variant \in FullPipelines =>
        \A n \in { calls[k].issue : k \in IssueCalls } :
            /\ Cardinality(UpdatesOf(n)) <= 1
            /\ Cardinality(CommentsOf(n)) <= 1
            /\ \A c \in CommentsOf(n) :
                 \E u \in UpdatesOf(n) : u < c /\ Ok(calls[u].status)
            /\ (\E u \in UpdatesOf(n) : ~Ok(calls[u].status)) => CommentsOf(n) = {}

\* the update of the first issue failed with status 500 and the run went on:
\* the second issue was updated and commented, the first got no comment
C26_Witness ==
    /\ variant \in FullPipelines
    /\ Len(allIssues) = 2
    /\ pc = "done"
    /\ \E u \in UpdatesOf(allIssues[1].number) : calls[u].status = 500
    /\ CommentsOf(allIssues[1].number) = {}
    /\ \E u \in UpdatesOf(allIssues[2].number) : Ok(calls[u].status)
    /\ CommentsOf(allIssues[2].number) # {}

\* the assignees the listing shows for issue n
ListedAssignees(n) ==
    UNION { { allIssues[i].assignees[j].login : j \in 1..Len(allIssues[i].assignees) } :
              i \in { x \in 1..Len(allIssues) : allIssues[x].number = n } }

\* record r is backed by this run: the update of its issue succeeded and
\* did not carry the user, who is an assignee of the listing; the comment of
\* the issue succeeded and names the user
Justified(r) ==
    LET n == r.issueNumber IN
    /\ \E u \in UpdatesOf(n) :
         /\ Ok(calls[u].status)
         /\ r.user \notin Range(calls[u].arg)
    /\ \E c \in CommentsOf(n) :
         /\ Ok(calls[c].status)
         /\ Includes(calls[c].arg, "@" \o r.user)
    /\ r.user \in ListedAssignees(n)

RecordsJustified == \A k \in 1..Len(unassignments) : Justified(unassignments[k])

\* C27: after every step of a run, every unassignment record names an issue
\* whose update and whose comment succeeded in this run and a user who is an
\* assignee of the listing that the run classified inactive (the comment
\* names the user) and who is not in the assignee list the update sent; and
\* the step left the records there were in place and unchanged.
C27_RecordsAreJustified ==
    [][(variant \in Variants) => (RecordsJustified' /\ AppendOnly)]_vars

\* a record for an issue whose update kept another assignee
C27_Witness ==
    /\ variant \in FullPipelines
    /\ unassignments # <<>>
    /\ \E u \in UpdatesOf(unassignments[1].issueNumber) :
         Ok(calls[u].status) /\ calls[u].arg # <<>>

\* the users a successful update took off issue n: the assignees of the
\* listing that the list sent does not carry
Dropped(u) == ListedAssignees(calls[u].issue) \ Range(calls[u].arg)

\* C28: when a run has ended with the summary (no fatal error), every user
\* that a successful update of the run took off an issue has an unassignment
\* record for that issue in the collection the summary was formatted from,
\* also when the comment after the update failed with a status other than
\* 403.
C28_SummaryNamesEveryRemoval ==
    (variant \in Variants /\ pc = "done" /\ output # <<>>) =>
        \A u \in { k \in 1..Len(calls) :
                     calls[k].op = "issues.update" /\ Ok(calls[k].status) } :
            \A user \in Dropped(u) :
                \E k \in 1..Len(unassignments) :
                    /\ unassignments[k].user = user
                    /\ unassignments[k].issueNumber = calls[u].issue

\* the run ended in the catch at the top of the function
Aborted == failed # <<>> /\ Last(failed) # "Error setting output"

\* C29: a run of a full pipeline that aborts on a fatal error, also after it
\* has recorded unassignments, has called core.setFailed once, has returned
\* the empty string and has not set the output 'unassignments'; the output
\* is set only by a run that has taken up every issue of its list and has
\* not failed, and then once.
C29_AbortSetsNoOutput ==
    variant \in FullPipelines =>
        /\ Aborted =>
             /\ pc = "done"
             /\ Len(failed) = 1
             /\ returned = <<"">>
             /\ output = <<>>
        /\ output # <<>> =>
             /\ Len(output) = 1
             /\ pc = "done"
             /\ idx = Len(allIssues)
             /\ failed = <<>>
             /\ returned = output

\* the first issue was unassigned and recorded, the update of the second was
\* answered 403: the run failed with a record it does not report
C29_Witness ==
    /\ variant \in FullPipelines
    /\ Aborted
    /\ unassignments # <<>>
    /\ idx = 2
    /\ Last(calls).op = "issues.update"
    /\ Last(calls).status = 403
    /\ output = <<>>

\* the run ended with the summary: returned and set as output, no failure
EndedWithSummary ==
    /\ failed = <<>>
    /\ Len(output) = 1
    /\ returned = output

\* the run ended failed: core.setFailed called, '' returned, no output
EndedFailed ==
    /\ failed # <<>>
    /\ returned = <<"">>
    /\ output = <<>>

\* the pages the API serves for the listing
PagesServed == (Len(items) + perPage - 1) \div perPage

\* C30: a run of a full pipeline whose calls all return comes to an end: the
\* listing asks for no page beyond the one after the last page served, the
\* loop never goes past the end of the list, a run that has not ended can
\* take a step, and a run that has ended has ended in exactly one of two
\* ways: the summary returned and set as output, or core.setFailed called
\* and the empty string returned.
C30_EndsInOneOfTwoOutcomes ==
    variant \in FullPipelines =>
        /\ page <= PagesServed + 1
        /\ idx <= Len(allIssues)
        /\ pc # "done" => ENABLED Next
        /\ pc = "done" =>
             /\ EndedWithSummary \/ EndedFailed
             /\ ~(EndedWithSummary /\ EndedFailed)

====
